---- MODULE Spec2Model ----
(***************************************************************************)
(* The meeting-end watcher of BreakTimeline.jsx / MeetingList.jsx (the two *)
(* components carry the same useEffect): a React effect keyed on           *)
(* [events, onMeetingEnd] that runs checkFn once and then every 15000 ms,  *)
(* remembering in triggeredMeetingIdsRef the event ids it has triggered.   *)
(*                                                                         *)
(* Time is epoch milliseconds.  The clock of the model moves in steps of   *)
(* one poll interval; every handler runs at one instant.                   *)
(*                                                                         *)
(* The second part models the timeSlots memo of BreakTimeline.jsx, which   *)
(* builds the list of meeting and break slots of a render.                 *)
(*                                                                         *)
(* The parts after it model formatDate, the break editor with the schedule *)
(* fetches of the Dashboard, the upcoming-break alert, and the manual      *)
(* "Meeting Ended" trigger.                                                *)
(***************************************************************************)
EXTENDS Integers, Sequences, FiniteSets, TLC

VARIABLES
    now,                  \* new Date(): the wall clock, in ms
    mounted,              \* the component instance exists
    events,               \* props.events of the current render
    onMeetingEnd,         \* props.onMeetingEnd of the current render
    triggeredMeetingIds,  \* triggeredMeetingIdsRef.current
    interval,             \* the setInterval timer of the effect is armed
    timers,               \* the armed interval timers of the page, each the
                          \* checkFn closure it runs: its events and callback
    invoked,              \* the onMeetingEnd(event) calls of the latest handler
    delivered,            \* ids this instance has called onMeetingEnd with so far
    lastHandler,          \* the handler that ran last
    breakSuggestions,     \* props.breakSuggestions of the current render
    localBreakUpdates,    \* the localBreakUpdates state: break id -> edited time
    timezone,             \* useTimezone().timezone, the viewer's setting
    machineZone,          \* the time zone of the machine the page runs on
    slots,                \* the slots array of the memo, as pushed, before the sort
    timeSlots,            \* the memoised timeSlots
    built,                \* the timeSlots memo has been computed
    formatInstant,        \* the date handed to formatDate
    label,                \* what formatDate returned for it
    scheduleData,         \* Dashboard: the schedule last applied, or Null
    loading,              \* Dashboard: the loading flag, a prop of the timeline
    requests,             \* the HTTP requests awaiting their response
    refreshTimers,        \* the pending setTimeout(loadDashboardData, 500)
    server,               \* the break suggestions the backend holds
    issued,               \* how many schedule fetches have been issued
    sent,                 \* how many break requests have been sent
    okFetches,            \* the fetches whose response has been applied
    lastFetch,            \* the last fetch response handled, and the data before it
    editingBreak,         \* BreakTimeline: the break in the editor, or Null
    addingBreak,          \* BreakTimeline: the editor was opened by "Add Break"
    breakEditor,          \* BreakEditor: its time state and originalDataRef, or Null
    lastEdit,             \* the save or cancel that was the last act on the editor
    saved,                \* the edit last saved and not yet seen in a refreshed schedule
    breakAlert,           \* Dashboard: the upcoming-break alert of the last render
    meetingEndedProcessing, \* Dashboard: the "Meeting Ended" pipeline is running
    processingStage,      \* Dashboard: the stage text under the button
    stageIntervals,       \* the live stage intervals: trigger number -> stageIndex
    triggerRequests,      \* the trigger requests awaiting their response
    resultTimers,         \* the triggers whose results are shown in 500 ms
    triggerCount          \* how many times the button has been pressed

watcher == <<mounted, onMeetingEnd, triggeredMeetingIds, interval, timers,
             invoked, delivered, lastHandler>>

timeline == <<breakSuggestions, localBreakUpdates, timezone, machineZone,
              slots, timeSlots, built>>

format == <<formatInstant, label>>

dashboard == <<scheduleData, loading, requests, refreshTimers, server, issued, sent,
               okFetches, lastFetch>>

editor == <<editingBreak, addingBreak, breakEditor, lastEdit, saved>>

\* The state outside the watcher and the timeline memo
pipeline == <<meetingEndedProcessing, processingStage, stageIntervals, triggerRequests,
              resultTimers, triggerCount>>

others == <<format, dashboard, editor, breakAlert, pipeline>>

vars == <<now, events, watcher, timeline, others>>

----------------------------------------------------------------------------
(* Bounds of the model *)

MaxTicks == 3
MaxEvents == 2

(* Program constants *)

PollIntervalMs == 15000
MsPerMinute == 60000

MaxNow == MaxTicks * PollIntervalMs

----------------------------------------------------------------------------
(* Values *)

\* new Date(x).getTime() of a string that does not parse
NaN == -1
\* event.id / event.summary absent (undefined, falsy)
NoId == ""
NoSummary == ""
\* minutesUntilEnd's null
Null == <<>>

\* Events with a backend id; the end is unparseable, or one of two instants
IdEvents ==
    [id: {"m1", "m2"}, summary: {"sync"}, start: {0}, end: {NaN, 2 * PollIntervalMs}]

\* Events without an id: the title absent, "evt" or "sync", two start instants
NoIdEvents ==
    [id: {NoId}, summary: {NoSummary, "evt", "sync"}, start: {0}, end: {2 * PollIntervalMs}]
    \cup [id: {NoId}, summary: {"sync"}, start: {PollIntervalMs}, end: {2 * PollIntervalMs}]

\* The event lists a fetch can deliver: up to MaxEvents different events of a pool
Range(s) == {s[i] : i \in DOMAIN s}

EventLists(pool) ==
    UNION {{s \in [1..n -> pool] : Cardinality(Range(s)) = n} : n \in 0..MaxEvents}

\* props.onMeetingEnd: absent, or a function that returns, throws, or calls the
\* disposer of the subscription
Callbacks == {"undefined", "returns", "throws", "stops"}

----------------------------------------------------------------------------
(* Helpers of checkFn *)

\* Math.round(num / den), den > 0: the nearest integer, halves towards +infinity
MathRound(num, den) == (2 * num + den) \div (2 * den)

\* `${x}` of a getTime() value
NumToString(t) == IF t = NaN THEN "NaN" ELSE ToString(t)

\* Variant: an unparseable end read as the epoch instead of reported as null
MinutesUntilEndNaNAsEpoch(end, t) ==
    <<MathRound((IF end = NaN THEN 0 ELSE end) - t, MsPerMinute)>>

MinutesUntilEnd(end, t) ==
    IF end = NaN THEN Null ELSE <<MathRound(end - t, MsPerMinute)>>

\* Variant: the synthetic id built from the title alone
EventKeyTitleOnly(e) ==
    IF e.id # NoId
    THEN e.id
    ELSE (IF e.summary # NoSummary THEN e.summary ELSE "evt")

EventKey(e) ==
    IF e.id # NoId
    THEN e.id
    ELSE (IF e.summary # NoSummary THEN e.summary ELSE "evt")
             \o "_" \o NumToString(e.start)

CurrentIds(evs) == {EventKey(evs[i]) : i \in DOMAIN evs}

\* Variant: no look-up in the triggered set
ShouldTriggerEveryTime(mins, id, triggered) == mins[1] <= 0

\* Variant: only a strictly negative minute count triggers
ShouldTriggerStrictlyPast(mins, id, triggered) == mins[1] < 0 /\ id \notin triggered

ShouldTrigger(mins, id, triggered) == mins[1] <= 0 /\ id \notin triggered

IsFunction(cb) == cb # "undefined"

\* What calling onMeetingEnd does
CallOutcome(cb) ==
    CASE cb = "returns" -> "returned"
      [] cb = "throws" -> "threw"
      [] cb = "stops" -> "stopped"

\* Variant: the call outside any try/catch
TryWithoutCatch(outcome) == IF outcome = "threw" THEN "throw" ELSE "normal"

\* The completion of try { onMeetingEnd(event) } catch (err) { console.error }
TryCatch(outcome) == "normal"

ClearInterval(armed) == FALSE

\* setInterval(checkFn, 15000)
SetInterval(armed) == TRUE

\* Variant: the set is emptied after every scan
PruneAll(triggered, currentIds) == {}

\* Variant: stale ids are kept
PruneNothing(triggered, currentIds) == triggered

\* for (id of triggered) if (!currentIds.has(id)) triggered.delete(id)
Prune(triggered, currentIds) == triggered \cap currentIds

\* The state a handler works on: the ref, the timer, and the calls it has made
HandlerState(triggered, armed, seen) ==
    [triggered |-> triggered, interval |-> armed, invoked |-> <<>>,
     delivered |-> seen, aborted |-> FALSE]

\* One pass of events.forEach(event => ...) from index i on, at time t
RECURSIVE ForEachEvent(_, _, _, _, _)
ForEachEvent(evs, i, cb, t, st) ==
    IF i > Len(evs) \/ st.aborted
    THEN st
    ELSE LET event == evs[i]
             id == EventKey(event)
             mins == MinutesUntilEnd(event.end, t)
         IN  IF mins = Null
             THEN ForEachEvent(evs, i + 1, cb, t, st)
             ELSE IF ~ShouldTrigger(mins, id, st.triggered)
             THEN ForEachEvent(evs, i + 1, cb, t, st)
             ELSE IF ~IsFunction(cb)
             THEN \* console.log fallback, then add(id)
                  ForEachEvent(evs, i + 1, cb, t,
                      [st EXCEPT !.triggered = @ \cup {id}])
             ELSE LET outcome == CallOutcome(cb)
                      called ==
                          [st EXCEPT
                             !.invoked = Append(@, [event |-> event,
                                                    outcome |-> outcome,
                                                    again |-> id \in st.delivered]),
                             !.delivered = @ \cup {id},
                             !.interval = IF outcome = "stopped"
                                          THEN ClearInterval(@) ELSE @]
                  IN  IF outcome = "threw" /\ TryCatch(outcome) # "normal"
                      THEN [called EXCEPT !.aborted = TRUE]
                      ELSE ForEachEvent(evs, i + 1, cb, t,
                               [called EXCEPT !.triggered = @ \cup {id}])

CheckFn(evs, cb, t, st) ==
    LET scanned == ForEachEvent(evs, 1, cb, t, st)
    IN  IF scanned.aborted
        THEN scanned
        ELSE [scanned EXCEPT !.triggered = Prune(@, CurrentIds(evs))]

\* Variant: the effect only arms the timer
InitialCheckSkipped(evs, cb, t, st) == st

\* The checkFn() call of the effect body, before setInterval
InitialCheck(evs, cb, t, st) == CheckFn(evs, cb, t, st)

\* The body of useEffect(() => {...}, [events, onMeetingEnd]), after the cleanup
\* of the previous run
Effect(evs, cb, t, triggered, seen) ==
    IF Len(evs) = 0
    THEN HandlerState({}, FALSE, seen)
    ELSE LET checked == InitialCheck(evs, cb, t, HandlerState(triggered, FALSE, seen))
         IN  IF checked.aborted
             THEN checked
             ELSE [checked EXCEPT !.interval = SetInterval(@)]

\* The checkFn of an effect run: it closes over that render's props
Closure(evs, cb) == [events |-> evs, onMeetingEnd |-> cb]

\* Variant: an effect with no cleanup
CleanupSkipped(ts, armed) == ts

\* return () => clearInterval(interval): the timer of the previous effect run,
\* the last one armed, leaves the timer table
Cleanup(ts, armed) == IF armed THEN SubSeq(ts, 1, Len(ts) - 1) ELSE ts

\* The timer table after an effect run or a tick that ended in state st
Armed(ts, st, closure) == IF st.interval THEN Append(ts, closure) ELSE ts

\* The label before formatDate has returned
NotFormatted == "not formatted"

\* No date has been formatted
FormatIdle ==
    /\ formatInstant = NaN
    /\ label = NotFormatted

\* The Dashboard has fetched nothing
DashboardIdle ==
    /\ scheduleData = Null
    /\ loading = FALSE
    /\ requests = {}
    /\ refreshTimers = 0
    /\ server = <<>>
    /\ issued = 0
    /\ sent = 0
    /\ okFetches = {}
    /\ lastFetch = Null

\* The break editor is closed and has never been used
EditorIdle ==
    /\ editingBreak = Null
    /\ addingBreak = FALSE
    /\ breakEditor = Null
    /\ lastEdit = Null
    /\ saved = Null

\* The alert before the Dashboard has rendered
NotRendered == "not rendered"

\* The "Meeting Ended" button has not been pressed
PipelineIdle ==
    /\ meetingEndedProcessing = FALSE
    /\ processingStage = ""
    /\ stageIntervals = <<>>
    /\ triggerRequests = {}
    /\ resultTimers = {}
    /\ triggerCount = 0

OthersIdle ==
    FormatIdle /\ DashboardIdle /\ EditorIdle /\ breakAlert = NotRendered /\ PipelineIdle

----------------------------------------------------------------------------
(* The state machine *)

Init ==
    /\ now = 0
    /\ mounted = FALSE
    /\ events = <<>>
    /\ onMeetingEnd = "undefined"
    /\ triggeredMeetingIds = {}
    /\ interval = FALSE
    /\ timers = <<>>
    /\ invoked = <<>>
    /\ delivered = {}
    /\ lastHandler = "none"
    /\ breakSuggestions = <<>>
    /\ localBreakUpdates = <<>>
    /\ timezone = "UTC"
    /\ machineZone = "UTC"
    /\ slots = <<>>
    /\ timeSlots = <<>>
    /\ built = FALSE
    /\ OthersIdle

Commit(st, handler) ==
    /\ triggeredMeetingIds' = st.triggered
    /\ interval' = st.interval
    /\ invoked' = st.invoked
    /\ delivered' = st.delivered
    /\ lastHandler' = handler
    /\ UNCHANGED <<timeline, others>>

\* First render of a component instance: useRef(new Set()), then the effect
Mount(evs, cb) ==
    /\ ~mounted
    /\ mounted' = TRUE
    /\ events' = evs
    /\ onMeetingEnd' = cb
    /\ now' = now
    /\ timers' = Armed(<<>>, Effect(evs, cb, now, {}, {}), Closure(evs, cb))
    /\ Commit(Effect(evs, cb, now, {}, {}), "mount")

\* Variant: the triggered set created by every effect run instead of kept in a ref
RerenderWithFreshSet(evs, cb) ==
    /\ mounted
    /\ mounted' = TRUE
    /\ events' = evs
    /\ onMeetingEnd' = cb
    /\ now' = now
    /\ timers' = Armed(Cleanup(timers, interval),
                       Effect(evs, cb, now, {}, delivered), Closure(evs, cb))
    /\ Commit(Effect(evs, cb, now, {}, delivered), "rerender")

\* A render with a new events array or a new callback: the cleanup of the
\* previous effect run, then the effect again
Rerender(evs, cb) ==
    /\ mounted
    /\ mounted' = TRUE
    /\ events' = evs
    /\ onMeetingEnd' = cb
    /\ now' = now
    /\ timers' = Armed(Cleanup(timers, interval),
                       Effect(evs, cb, now, triggeredMeetingIds, delivered),
                       Closure(evs, cb))
    /\ Commit(Effect(evs, cb, now, triggeredMeetingIds, delivered), "rerender")

\* The component goes away: the cleanup runs, the ref dies with the instance
Unmount ==
    /\ mounted
    /\ mounted' = FALSE
    /\ events' = <<>>
    /\ onMeetingEnd' = "undefined"
    /\ now' = now
    /\ timers' = Cleanup(timers, interval)
    /\ Commit(HandlerState({}, ClearInterval(interval), {}), "unmount")

\* The armed timer fires one poll interval later and runs checkFn
IntervalFires ==
    /\ interval
    /\ now < MaxNow
    /\ now' = now + PollIntervalMs
    /\ UNCHANGED <<mounted, events, onMeetingEnd>>
    /\ \E i \in DOMAIN timers :
           LET st == CheckFn(timers[i].events, timers[i].onMeetingEnd, now',
                             HandlerState(triggeredMeetingIds, interval, delivered))
           IN  /\ timers' = IF st.interval THEN timers
                            ELSE SubSeq(timers, 1, i - 1) \o SubSeq(timers, i + 1, Len(timers))
               /\ Commit(st, "tick")

\* No timer is armed and time passes
TimePasses ==
    /\ ~interval
    /\ now < MaxNow
    /\ now' = now + PollIntervalMs
    /\ UNCHANGED <<mounted, events, onMeetingEnd, triggeredMeetingIds, interval,
                   timers, delivered>>
    /\ invoked' = <<>>
    /\ lastHandler' = "none"
    /\ UNCHANGED <<timeline, others>>

NextOver(pool, callbacks) ==
    \/ \E evs \in EventLists(pool), cb \in callbacks : Mount(evs, cb)
    \/ \E evs \in EventLists(pool), cb \in callbacks : Rerender(evs, cb)
    \/ Unmount
    \/ IntervalFires
    \/ TimePasses

Next == NextOver(IdEvents, Callbacks)

Spec == Init /\ [][Next]_vars

\* The same watcher fed events that carry no id, the callback absent or returning
NextNoId == NextOver(NoIdEvents, {"undefined", "returns"})

SpecNoId == Init /\ [][NextNoId]_vars

----------------------------------------------------------------------------
(***************************************************************************)
(* The timeline builder of BreakTimeline.jsx: the timeSlots memo, which    *)
(* turns the events and the break suggestions of a render into the sorted, *)
(* truncated list of slots the component draws.                            *)
(***************************************************************************)

(* Bounds of the timeline model *)

MaxSuggestions == 2
MaxItems == 4

(* Program constants *)

MaxSlots == 20
MsPerHour == 60 * MsPerMinute

\* The instants the inputs are drawn from: two render times and the times
\* around them
EarlyNow == 60 * MsPerMinute
T1 == 70 * MsPerMinute
T1Seconds == T1 + 30000
T2 == 80 * MsPerMinute
T3 == 90 * MsPerMinute
FallBack == 120 * MsPerMinute
AfterFallBack == 130 * MsPerMinute

BuildNows == {EarlyNow, T2}

\* useTimezone().timezone: the zone the viewer chose for display
ViewerZones == {"UTC", "America/New_York"}

\* The zone of the machine: one without clock changes, and one that sets its
\* clocks back one hour at FallBack
MachineZones == {"UTC", "Europe/London"}

\* Calendar events of a fetch: two well-formed ones, one whose start does not
\* parse, one whose end does not parse, one that ends before it starts
TimelineEvents ==
    { [id |-> "e1", summary |-> "standup", start |-> T1, end |-> T2],
      [id |-> "e2", summary |-> "review", start |-> T2, end |-> T3],
      [id |-> "e3", summary |-> "badstart", start |-> NaN, end |-> T3],
      [id |-> "e4", summary |-> "badend", start |-> T1, end |-> NaN],
      [id |-> "e5", summary |-> "inverted", start |-> T2, end |-> T1] }

\* Break suggestions of a fetch: with a backend id or without, one whose time
\* does not parse
Suggestions ==
    { [id |-> "b1", time |-> T1],
      [id |-> "b1", time |-> T3],
      [id |-> "b1", time |-> NaN],
      [id |-> NoId, time |-> T1],
      [id |-> NoId, time |-> T1Seconds],
      [id |-> NoId, time |-> AfterFallBack] }

\* Up to MaxSuggestions suggestions, the same one possibly fed more than once
SuggestionLists == UNION {[1..n -> Suggestions] : n \in 0..MaxSuggestions}

\* localBreakUpdates: nothing pending, or an edited time for break "b1"
\* (the editor hands over new Date(...).toISOString(), which always parses)
LocalBreakUpdates == {<<>>} \cup {[i \in {"b1"} |-> t] : t \in {T2, T3}}

----------------------------------------------------------------------------
(* Date arithmetic *)

\* getSortTime: the epoch milliseconds of a date, 0 for an invalid one
GetSortTime(t) == IF t = NaN THEN 0 ELSE t

\* The comparison that lets the instant now itself through
AfterOrAt(t, n) == t # NaN /\ t >= n

\* x > now on dates: false when x is an invalid date
After(t, n) == t # NaN /\ t > n

\* Math.round((end - start) / 60000)
Duration(start, end) ==
    IF start = NaN \/ end = NaN THEN NaN ELSE MathRound(end - start, MsPerMinute)

\* The offset of local time from UTC at instant t
ZoneOffset(zone, t) == IF zone = "Europe/London" /\ t < FallBack THEN MsPerHour ELSE 0

\* getFullYear() ... getMinutes(): the local clock reading, seconds dropped
LocalMinute(zone, t) == ((t + ZoneOffset(zone, t)) \div MsPerMinute) * MsPerMinute

\* new Date(y, m, d, h, min, 0): the instant of a local clock reading; a
\* reading the clock shows twice is taken with the offset before the change
DateFromLocal(zone, l) ==
    IF zone = "Europe/London" /\ l - MsPerHour < FallBack THEN l - MsPerHour ELSE l

BreakTimeRounded(zone, t) ==
    IF t = NaN THEN NaN ELSE DateFromLocal(zone, LocalMinute(zone, t))

----------------------------------------------------------------------------
(* The slots *)

\* event.summary || 'Meeting'
MeetingTitle(e) == IF e.summary # NoSummary THEN e.summary ELSE "Meeting"

EventSlot(e) ==
    [type |-> "meeting", time |-> e.start, sortTime |-> GetSortTime(e.start),
     endTime |-> e.end, endSortTime |-> GetSortTime(e.end),
     duration |-> Duration(e.start, e.end), title |-> MeetingTitle(e)]

\* events.forEach: a slot for every event that has not ended
RECURSIVE PushEvents(_, _, _, _)
PushEvents(evs, i, n, acc) ==
    IF i > Len(evs) THEN acc
    ELSE PushEvents(evs, i + 1, n,
                    IF After(evs[i].end, n) THEN Append(acc, EventSlot(evs[i])) ELSE acc)

\* breakSuggestion.id || `break_${breakTimeRounded.getTime()}`
BreakId(s, zone) ==
    IF s.id # NoId THEN s.id
    ELSE "break_" \o NumToString(BreakTimeRounded(zone, s.time))

\* The suggestion's own time, whatever is pending for its id
BreakTimeStrNoOverride(s, id, upd) == s.time

\* localBreakUpdates[breakId] || breakSuggestion.time
BreakTimeStr(s, id, upd) == IF id \in DOMAIN upd THEN upd[id] ELSE s.time

BreakSlot(s, id, t) ==
    [id |-> id, type |-> "break", time |-> t, sortTime |-> GetSortTime(t),
     recommended |-> TRUE, breakData |-> [s EXCEPT !.time = t]]

\* The seenBreakIds test that lets every suggestion through
SeenNever(id, seen) == FALSE

\* seenBreakIds.has(breakId)
Seen(id, seen) == id \in seen

\* breakSuggestions.forEach: a slot for the first suggestion of every id, when
\* its time, or the edited time pending for the id, lies ahead
RECURSIVE PushBreaks(_, _, _, _, _, _, _)
PushBreaks(suggs, i, n, upd, zone, seen, acc) ==
    IF i > Len(suggs) THEN acc
    ELSE LET s == suggs[i]
             id == BreakId(s, zone)
             t == BreakTimeStr(s, id, upd)
         IN  IF Seen(id, seen)
             THEN PushBreaks(suggs, i + 1, n, upd, zone, seen, acc)
             ELSE PushBreaks(suggs, i + 1, n, upd, zone, seen \cup {id},
                             IF After(t, n) THEN Append(acc, BreakSlot(s, id, t)) ELSE acc)

\* The slots array when the sort is reached
Slots(evs, suggs, n, upd, zone) ==
    PushBreaks(suggs, 1, n, upd, zone, {}, PushEvents(evs, 1, n, <<>>))

----------------------------------------------------------------------------
(* slots.sort(...) and slots.slice(0, 20) *)

\* a.sortTime || a.time.getTime()
SlotKey(a) == IF a.sortTime # 0 THEN a.sortTime ELSE a.time

\* The comparator as the sort reads it: a NaN difference counts as +0
SortCompare(a, b) ==
    IF SlotKey(a) = NaN \/ SlotKey(b) = NaN THEN 0 ELSE SlotKey(a) - SlotKey(b)

Reverse(a) == [i \in 1..Len(a) |-> a[Len(a) + 1 - i]]

\* Array.prototype.sort is stable; with a comparator that is not consistent
\* (a NaN key) the order is left to the engine.  Two engines' algorithms are
\* modelled.  The first is the TimSort of V8 for arrays shorter than 64: the
\* run at the head of the array is found (a strictly descending one is
\* reversed) and the rest is inserted into it by binary search.
RECURSIVE CountRun(_, _, _)
CountRun(a, idx, descending) ==
    IF idx > Len(a) THEN Len(a)
    ELSE LET order == SortCompare(a[idx], a[idx - 1])
         IN  IF (descending /\ order >= 0) \/ (~descending /\ order < 0)
             THEN idx - 1
             ELSE CountRun(a, idx + 1, descending)

RECURSIVE BinarySearch(_, _, _, _)
BinarySearch(a, pivot, left, right) ==
    IF left >= right THEN left
    ELSE LET mid == left + ((right - left) \div 2)
         IN  IF SortCompare(pivot, a[mid]) < 0
             THEN BinarySearch(a, pivot, left, mid)
             ELSE BinarySearch(a, pivot, mid + 1, right)

RECURSIVE BinaryInsertionSort(_, _)
BinaryInsertionSort(a, start) ==
    IF start > Len(a) THEN a
    ELSE LET pivot == a[start]
             at == BinarySearch(a, pivot, 1, start)
             moved == [i \in 1..Len(a) |->
                         IF i < at \/ i > start THEN a[i]
                         ELSE IF i = at THEN pivot ELSE a[i - 1]]
         IN  BinaryInsertionSort(moved, start + 1)

TimSort(a) ==
    IF Len(a) < 2 THEN a
    ELSE LET descending == SortCompare(a[2], a[1]) < 0
             run == CountRun(a, 3, descending)
             made == IF descending
                     THEN Reverse(SubSeq(a, 1, run)) \o SubSeq(a, run + 1, Len(a))
                     ELSE a
         IN  BinaryInsertionSort(made, run + 1)

\* The second is a top-down merge sort that takes from the left half unless
\* the comparator is positive
RECURSIVE Merge(_, _)
Merge(l, r) ==
    IF l = <<>> THEN r
    ELSE IF r = <<>> THEN l
    ELSE IF SortCompare(l[1], r[1]) <= 0
         THEN <<l[1]>> \o Merge(Tail(l), r)
         ELSE <<r[1]>> \o Merge(l, Tail(r))

RECURSIVE MergeSort(_)
MergeSort(a) ==
    IF Len(a) < 2 THEN a
    ELSE LET mid == Len(a) \div 2
         IN  Merge(MergeSort(SubSeq(a, 1, mid)), MergeSort(SubSeq(a, mid + 1, Len(a))))

SortOutcomes(a) == {TimSort(a), MergeSort(a)}

\* slice(0, 20)
Slice(a, n) == SubSeq(a, 1, IF Len(a) < n THEN Len(a) ELSE n)

\* The memo with "now" taken as the wall clock of the viewer's zone
BuildTimelineViewerClock(evs, suggs, n, upd, tz, zone) ==
    {Slice(sorted, MaxSlots) :
        sorted \in SortOutcomes(Slots(evs, suggs,
                                      n - (IF tz = "UTC" THEN 0 ELSE 5 * MsPerHour),
                                      upd, zone))}

\* The memo: the lists a render can compute from its inputs.  The viewer's
\* timezone is a dependency of the memo and is read by nothing in it.
BuildTimeline(evs, suggs, n, upd, tz, zone) ==
    {Slice(sorted, MaxSlots) : sorted \in SortOutcomes(Slots(evs, suggs, n, upd, zone))}

----------------------------------------------------------------------------
(* The timeline as a state machine: a render with given props, then the memo *)

\* The watcher plays no part in the memo
WatcherIdle ==
    /\ mounted = FALSE
    /\ onMeetingEnd = "undefined"
    /\ triggeredMeetingIds = {}
    /\ interval = FALSE
    /\ timers = <<>>
    /\ invoked = <<>>
    /\ delivered = {}
    /\ lastHandler = "none"

NotBuilt ==
    /\ slots = <<>>
    /\ timeSlots = <<>>
    /\ built = FALSE

InitTimeline ==
    /\ WatcherIdle
    /\ now \in BuildNows
    /\ events \in EventLists(TimelineEvents)
    /\ breakSuggestions \in SuggestionLists
    /\ Len(events) + Len(breakSuggestions) <= MaxItems
    /\ localBreakUpdates \in LocalBreakUpdates
    /\ timezone \in ViewerZones
    /\ machineZone \in MachineZones
    /\ NotBuilt
    /\ OthersIdle

\* The render computes the memo
BuildTimeSlots ==
    /\ ~built
    /\ built' = TRUE
    /\ slots' = Slots(events, breakSuggestions, now, localBreakUpdates, machineZone)
    /\ timeSlots' \in BuildTimeline(events, breakSuggestions, now, localBreakUpdates,
                                    timezone, machineZone)
    /\ UNCHANGED <<now, events, watcher, breakSuggestions, localBreakUpdates,
                   timezone, machineZone, others>>

NextTimeline == BuildTimeSlots

SpecTimeline == InitTimeline /\ [][NextTimeline]_vars

----------------------------------------------------------------------------
(* Renders with more items than the component draws *)

MaxExtra == 2

\* Event number k of a long calendar: well-formed, not ended, starting one
\* minute after the event two before it, so that neighbours start together
LongEvent(k) ==
    [id |-> "g" \o ToString(k), summary |-> "m" \o ToString(k),
     start |-> T1 + (k \div 2) * MsPerMinute,
     end |-> T3 + (k \div 2) * MsPerMinute]

\* n events in ascending or descending order of their number, rotated by r
LongCalendar(n, descending, r) ==
    [i \in 1..n |->
        LET at == ((i - 1 + r) % n) + 1
        IN  LongEvent(IF descending THEN n + 1 - at ELSE at)]

BadStartEvent == [id |-> "e3", summary |-> "badstart", start |-> NaN, end |-> T3]

\* The list with one more event put in after its first p events
InsertAt(evs, p, e) == SubSeq(evs, 1, p) \o <<e>> \o SubSeq(evs, p + 1, Len(evs))

LongCalendars ==
    LET plain == {LongCalendar(n, d, r) :
                     n \in (MaxSlots - 1)..(MaxSlots + MaxExtra), d \in BOOLEAN,
                     r \in 0..(MaxSlots + MaxExtra)}
    IN  plain \cup UNION {{InsertAt(evs, p, BadStartEvent) : p \in 0..Len(evs)} :
                             evs \in plain}

InitTruncate ==
    /\ WatcherIdle
    /\ now = EarlyNow
    /\ events \in LongCalendars
    /\ breakSuggestions \in {<<>>, <<[id |-> "b1", time |-> T1]>>}
    /\ localBreakUpdates = <<>>
    /\ timezone \in ViewerZones
    /\ machineZone = "UTC"
    /\ NotBuilt
    /\ OthersIdle

SpecTruncate == InitTruncate /\ [][NextTimeline]_vars

----------------------------------------------------------------------------
(***************************************************************************)
(* formatDate of BreakTimeline.jsx / MeetingList.jsx: the day label of a   *)
(* slot, "Today", "Tomorrow" or a short date, in the viewer's timezone.    *)
(***************************************************************************)

MsPerDay == 24 * MsPerHour

\* The zones a viewer can choose here: the two above and one whose day of
\* the clock change has 25 hours
FormatZones == ViewerZones \cup {"Europe/London"}

\* Half past the hour, from the evening before the clock change to two days
\* after it
FormatHours == {-1, 0, 4, 5, 12, 23, 24, 28, 29, 36, 47, 48, 52}
FormatInstants == {h * MsPerHour + 30 * MsPerMinute : h \in FormatHours}
FormatNows == {h * MsPerHour + 30 * MsPerMinute : h \in {-1, 0, 4, 23}}

\* The offset of the wall clock of timeZone from UTC at instant t
OffsetIn(tz, t) ==
    IF tz = "America/New_York" THEN 0 - 5 * MsPerHour ELSE ZoneOffset(tz, t)

\* formatter.formatToParts(t): year, month and day of t in timeZone, as the
\* number of the calendar day
DateParts(tz, t) == (t + OffsetIn(tz, t)) \div MsPerDay

\* new Date(year, month, day): midnight of that calendar day on the machine
UserDate(zone, day) == DateFromLocal(zone, day * MsPerDay)

\* tomorrow.setDate(tomorrow.getDate() + 1): the same reading of the
\* machine's clock on the machine's next calendar day
Tomorrow(zone, t) == DateFromLocal(zone, t + ZoneOffset(zone, t) + MsPerDay)

\* The short date of the last branch: weekday, month and day in timeZone
ShortDate(tz, t) == "day " \o ToString(DateParts(tz, t))

formatDate(d, n, tz, zone) ==
    IF d = NaN THEN ""
    ELSE LET userDate == UserDate(zone, DateParts(tz, d))
             userToday == UserDate(zone, DateParts(tz, n))
             userTomorrow == UserDate(zone, DateParts(tz, Tomorrow(zone, n)))
         IN  IF userDate = userToday THEN "Today"
             ELSE IF userDate = userTomorrow THEN "Tomorrow"
             ELSE ShortDate(tz, d)

\* A slot date is about to be formatted
InitFormat ==
    /\ WatcherIdle
    /\ now \in FormatNows
    /\ events = <<>>
    /\ breakSuggestions = <<>>
    /\ localBreakUpdates = <<>>
    /\ timezone \in FormatZones
    /\ machineZone \in MachineZones
    /\ NotBuilt
    /\ formatInstant \in FormatInstants \cup {NaN}
    /\ label = NotFormatted
    /\ DashboardIdle
    /\ EditorIdle
    /\ breakAlert = NotRendered
    /\ PipelineIdle

FormatDate ==
    /\ label = NotFormatted
    /\ label' = formatDate(formatInstant, now, timezone, machineZone)
    /\ UNCHANGED <<now, events, watcher, timeline, formatInstant, dashboard, editor,
                   breakAlert, pipeline>>

NextFormat == FormatDate

SpecFormat == InitFormat /\ [][NextFormat]_vars

----------------------------------------------------------------------------
(***************************************************************************)
(* The break editor of BreakTimeline.jsx (with BreakEditor) and the        *)
(* schedule fetches of Dashboard.jsx.  A request is sent by one handler    *)
(* and answered in a later step; the answers come in any order.  The clock *)
(* stays at one render time: the session is short against the minutes to   *)
(* the breaks.                                                             *)
(***************************************************************************)

(* Bounds of the editor model *)

MaxRequests == 1
MaxUpdates == 2

\* The time of the one break the backend suggests, and the times the user
\* picks in the editor
OriginalTime == T1
EditTimes == {T2, T3}

\* The id the backend gives a break that was saved without one
NewId == "b2"

\* The delay of the time "Add Break" proposes when no event lies ahead
AddBreakDelay == 30 * MsPerMinute

(* The backend, as far as the component can tell *)

\* POST /api/breaks/customize: the break of that id gets the time sent; a
\* break sent without an id is stored under an id of the backend's
Customize(srv, id, t) ==
    LET key == IF id = NoId THEN NewId ELSE id
    IN  IF \E i \in DOMAIN srv : srv[i].id = key
        THEN [i \in DOMAIN srv |->
                 IF srv[i].id = key THEN [srv[i] EXCEPT !.time = t] ELSE srv[i]]
        ELSE Append(srv, [id |-> key, time |-> t])

\* DELETE /api/breaks/:id, sent by "Delete" and by "Reset" alike: the backend
\* drops the break, or drops its customization and suggests it as before
Deleted(srv, id) ==
    LET gone == SelectSeq(srv, LAMBDA b : b.id # id)
        asBefore == [i \in DOMAIN srv |->
                        IF srv[i].id = id /\ id # NewId
                        THEN [srv[i] EXCEPT !.time = OriginalTime] ELSE srv[i]]
    IN  {gone, IF id = NewId THEN gone ELSE asBefore}

\* GET /api/serenity/schedule: response.data, marked with the number of the
\* fetch it answers
Schedule(n, srv) == [fetch |-> n, events |-> <<>>, break_suggestions |-> srv]

Request(n, kind, id, t, data) ==
    [n |-> n, kind |-> kind, id |-> id, time |-> t, data |-> data]

(* Props and local state *)

\* onBreaksUpdate: setTimeout(() => loadDashboardData(true), 500), one more
\* pending timer
OnBreaksUpdate(pending) == pending + 1

\* breakSuggestions={scheduleData?.break_suggestions || []}
BreakSuggestionsProp(sd) == IF sd = Null THEN <<>> ELSE sd.break_suggestions

\* (editingBreak || addingBreak), below the `if (loading) return` skeleton
EditorShown(ld, eb, ab) == ~ld /\ (eb # Null \/ ab)

\* breakItem?.id
BreakItemId(eb) == IF eb = Null THEN NoId ELSE eb.id

\* originalBreakData: the suggestion of the edited id, else the edited break
OriginalBreakData(eb, suggs) ==
    IF eb = Null THEN Null
    ELSE IF \E i \in DOMAIN suggs : suggs[i].id = eb.id
         THEN suggs[CHOOSE i \in DOMAIN suggs :
                        /\ suggs[i].id = eb.id
                        /\ \A j \in 1..(i - 1) : suggs[j].id # eb.id]
         ELSE eb

\* The state a BreakEditor mounts with: useState(breakItem?.time || new
\* Date().toISOString()) and useRef(originalBreakData || breakItem)
Mounted(eb, suggs, n) ==
    [time |-> IF eb = Null THEN n ELSE eb.time,
     original |-> OriginalBreakData(eb, suggs)]

\* The BreakEditor after a handler: unmounted when it is not rendered, mounted
\* afresh when it was not rendered before, else as the handler left it
Rendered(shownBefore, shownAfter, eb, suggs, n, current) ==
    IF ~shownAfter THEN Null
    ELSE IF shownBefore /\ current # Null THEN current
    ELSE Mounted(eb, suggs, n)

\* The override map with the entry of the id left as it is
DeleteOverrideSkipped(upd, id) == upd

\* const updated = { ...prev }; delete updated[id]
DeleteOverride(upd, id) ==
    IF DOMAIN upd \ {id} = {} THEN <<>>
    ELSE [i \in DOMAIN upd \ {id} |-> upd[i]]

\* { ...prev, [breakId]: newTime }
SetOverride(upd, id, t) ==
    [i \in DOMAIN upd \cup {id} |-> IF i = id THEN t ELSE upd[i]]

\* The alert limit, in minutes
AlertMinutes == 60

\* Upcoming Break Alert: the first suggestion of the schedule, if there is
\* one, is less than an hour ahead by the rounded minute count
UpcomingBreakAlert(suggs, n) ==
    IF Len(suggs) > 0
    THEN LET breakTime == suggs[1].time
             minutesUntil == IF breakTime = NaN THEN NaN
                             ELSE MathRound(breakTime - n, MsPerMinute)
         IN  IF minutesUntil # NaN /\ minutesUntil > 0 /\ minutesUntil < AlertMinutes
             THEN "shown" ELSE "hidden"
    ELSE "hidden"

\* The render that follows every handler: the memo of the new props and state
Render(suggs, upd) ==
    /\ breakAlert' = UpcomingBreakAlert(suggs, now)
    /\ breakSuggestions' = suggs
    /\ localBreakUpdates' = upd
    /\ slots' = Slots(events, suggs, now, upd, machineZone)
    /\ timeSlots' \in BuildTimeline(events, suggs, now, upd, timezone, machineZone)
    /\ built' = TRUE
    /\ UNCHANGED <<now, events, watcher, timezone, machineZone, format, pipeline>>

\* The Dashboard has mounted: nothing fetched yet, the first fetch in flight
InitEditor ==
    /\ WatcherIdle
    /\ FormatIdle
    /\ now = EarlyNow
    /\ events = <<>>
    /\ breakSuggestions = <<>>
    /\ localBreakUpdates = <<>>
    /\ timezone = "UTC"
    /\ machineZone = "UTC"
    /\ slots = <<>>
    /\ timeSlots = <<>>
    /\ built = TRUE
    /\ server = <<[id |-> "b1", time |-> OriginalTime]>>
    /\ scheduleData = Null
    /\ loading = TRUE
    /\ issued = 1
    /\ requests = {Request(1, "fetch", NoId, NaN, Schedule(1, server))}
    /\ refreshTimers = 0
    /\ sent = 0
    /\ okFetches = {}
    /\ lastFetch = Null
    /\ EditorIdle
    /\ breakAlert = "hidden"
    /\ PipelineIdle

\* loadDashboardData after the await: the response is applied, or the error
\* is shown; either way the finally clears the loading flag
FetchResponds ==
    \E r \in requests, ok \in BOOLEAN :
        /\ r.kind = "fetch"
        /\ requests' = requests \ {r}
        /\ scheduleData' = IF ok THEN r.data ELSE scheduleData
        /\ loading' = FALSE
        /\ okFetches' = IF ok THEN okFetches \cup {r.n} ELSE okFetches
        /\ lastFetch' = [ok |-> ok, before |-> scheduleData]
        /\ breakEditor' = Rendered(EditorShown(loading, editingBreak, addingBreak),
                                   EditorShown(FALSE, editingBreak, addingBreak),
                                   editingBreak, BreakSuggestionsProp(scheduleData'),
                                   now, breakEditor)
        /\ saved' = IF ok /\ saved # Null /\ r.n > saved.after THEN Null ELSE saved
        /\ Render(BreakSuggestionsProp(scheduleData'), localBreakUpdates)
        /\ UNCHANGED <<refreshTimers, server, issued, sent, editingBreak, addingBreak,
                       lastEdit>>

\* setTimeout(() => loadDashboardData(true), 500) fires: the loading flag is
\* set and the schedule is requested
RefreshTimerFires ==
    /\ refreshTimers > 0
    /\ refreshTimers' = refreshTimers - 1
    /\ loading' = TRUE
    /\ issued' = issued + 1
    /\ requests' = requests \cup
                       {Request(issued', "fetch", NoId, NaN, Schedule(issued', server))}
    /\ breakEditor' = Null
    /\ Render(breakSuggestions, localBreakUpdates)
    /\ UNCHANGED <<scheduleData, server, sent, okFetches, lastFetch, editingBreak,
                   addingBreak, lastEdit, saved>>

\* A click on a break slot: setEditingBreak(slot.breakData || slot)
SlotClick ==
    \E k \in DOMAIN timeSlots :
        /\ ~loading
        /\ ~EditorShown(loading, editingBreak, addingBreak)
        /\ timeSlots[k].type = "break"
        /\ editingBreak' = timeSlots[k].breakData
        /\ breakEditor' = Mounted(editingBreak', breakSuggestions, now)
        /\ lastEdit' = Null
        /\ Render(breakSuggestions, localBreakUpdates)
        /\ UNCHANGED <<dashboard, addingBreak, saved>>

\* handleAddBreak, with no event ahead
AddBreak ==
    /\ ~loading
    /\ ~EditorShown(loading, editingBreak, addingBreak)
    /\ editingBreak' = [id |-> NoId, time |-> now + AddBreakDelay]
    /\ addingBreak' = TRUE
    /\ breakEditor' = Mounted(editingBreak', breakSuggestions, now)
    /\ lastEdit' = Null
    /\ Render(breakSuggestions, localBreakUpdates)
    /\ UNCHANGED <<dashboard, saved>>

\* The time input's onChange and the onTimeChange of the timeline
TimeChange ==
    \E t \in EditTimes :
        LET id == BreakItemId(editingBreak) IN
        /\ EditorShown(loading, editingBreak, addingBreak)
        /\ breakEditor' = [breakEditor EXCEPT !.time = t]
        /\ editingBreak' = IF id # NoId THEN [editingBreak EXCEPT !.time = t]
                           ELSE editingBreak
        /\ lastEdit' = Null
        /\ saved' = IF saved # Null /\ saved.id = id THEN Null ELSE saved
        /\ Render(breakSuggestions,
                  IF id # NoId THEN SetOverride(localBreakUpdates, id, t)
                  ELSE localBreakUpdates)
        /\ UNCHANGED <<dashboard, addingBreak>>

\* The number that tells a request from the same request sent before it and
\* still unanswered
Copy(kind, id, t) ==
    CHOOSE n \in 1..(Cardinality(requests) + 1) :
        /\ Request(n, kind, id, t, <<>>) \notin requests
        /\ \A m \in 1..(n - 1) : Request(m, kind, id, t, <<>>) \in requests

\* A handler that sends a request and awaits the answer
Send(kind, id, t) ==
    /\ sent < MaxRequests
    /\ sent' = sent + 1
    /\ requests' = requests \cup {Request(Copy(kind, id, t), kind, id, t, <<>>)}
    /\ UNCHANGED <<scheduleData, loading, refreshTimers, server, issued, okFetches,
                   lastFetch>>

\* handleSave of the editor, handleBreakSave up to its await
SaveClick ==
    /\ EditorShown(loading, editingBreak, addingBreak)
    /\ Send("save", BreakItemId(editingBreak), breakEditor.time)
    /\ Render(breakSuggestions, localBreakUpdates)
    /\ UNCHANGED editor

\* handleDelete of the editor, handleBreakDelete up to its await
DeleteClick ==
    /\ EditorShown(loading, editingBreak, addingBreak)
    /\ Send("delete", BreakItemId(editingBreak), NaN)
    /\ Render(breakSuggestions, localBreakUpdates)
    /\ UNCHANGED editor

\* handleReset of the editor, onReset up to its await
ResetClick ==
    /\ EditorShown(loading, editingBreak, addingBreak)
    /\ breakEditor.original # Null
    /\ breakEditor' = [breakEditor EXCEPT !.time = breakEditor.original.time]
    /\ IF BreakItemId(editingBreak) # NoId
       THEN Send("reset", BreakItemId(editingBreak), NaN)
       ELSE UNCHANGED dashboard
    /\ Render(breakSuggestions, localBreakUpdates)
    /\ UNCHANGED <<editingBreak, addingBreak, lastEdit, saved>>

\* onCancel
Cancel ==
    LET id == BreakItemId(editingBreak) IN
    /\ EditorShown(loading, editingBreak, addingBreak)
    /\ editingBreak' = Null
    /\ addingBreak' = FALSE
    /\ breakEditor' = Null
    /\ lastEdit' = [kind |-> "cancelled", id |-> id]
    /\ Render(breakSuggestions,
              IF id # NoId THEN DeleteOverride(localBreakUpdates, id)
              ELSE localBreakUpdates)
    /\ UNCHANGED <<dashboard, saved>>

\* The catch of a handler: alert(...), nothing else
Alerted(r) ==
    /\ requests' = requests \ {r}
    /\ Render(breakSuggestions, localBreakUpdates)
    /\ UNCHANGED <<scheduleData, loading, refreshTimers, server, issued, sent,
                   okFetches, lastFetch, editor>>

\* handleBreakSave after the await
SaveResponds ==
    \E r \in requests, ok \in BOOLEAN :
        /\ r.kind = "save"
        /\ IF ~ok THEN Alerted(r)
           ELSE /\ requests' = requests \ {r}
                /\ server' = Customize(server, r.id, r.time)
                /\ refreshTimers' = OnBreaksUpdate(refreshTimers)
                /\ editingBreak' = Null
                /\ addingBreak' = FALSE
                /\ breakEditor' = Null
                /\ lastEdit' = [kind |-> "saved", id |-> r.id]
                /\ saved' = IF /\ r.id # NoId
                               /\ \E i \in DOMAIN breakSuggestions :
                                      /\ breakSuggestions[i].id = r.id
                                      /\ breakSuggestions[i].time # r.time
                            THEN [id |-> r.id, time |-> r.time, after |-> issued]
                            ELSE saved
                /\ Render(breakSuggestions,
                          IF r.id # NoId THEN DeleteOverride(localBreakUpdates, r.id)
                          ELSE localBreakUpdates)
                /\ UNCHANGED <<scheduleData, loading, issued, sent, okFetches, lastFetch>>

\* handleBreakDelete after the await
DeleteResponds ==
    \E r \in requests, ok \in BOOLEAN :
        /\ r.kind = "delete"
        /\ IF ~ok THEN Alerted(r)
           ELSE /\ requests' = requests \ {r}
                /\ server' \in Deleted(server, r.id)
                /\ refreshTimers' = OnBreaksUpdate(refreshTimers)
                /\ editingBreak' = Null
                /\ breakEditor' = Rendered(EditorShown(loading, editingBreak, addingBreak),
                                           EditorShown(loading, Null, addingBreak),
                                           Null, breakSuggestions, now, breakEditor)
                /\ lastEdit' = Null
                /\ saved' = IF saved # Null /\ saved.id = r.id THEN Null ELSE saved
                /\ Render(breakSuggestions, localBreakUpdates)
                /\ UNCHANGED <<scheduleData, loading, issued, sent, okFetches, lastFetch,
                               addingBreak>>

\* onReset after the await
ResetResponds ==
    \E r \in requests, ok \in BOOLEAN :
        /\ r.kind = "reset"
        /\ IF ~ok THEN Alerted(r)
           ELSE /\ requests' = requests \ {r}
                /\ server' \in Deleted(server, r.id)
                /\ refreshTimers' = OnBreaksUpdate(refreshTimers)
                /\ editingBreak' = Null
                /\ breakEditor' = Rendered(EditorShown(loading, editingBreak, addingBreak),
                                           EditorShown(loading, Null, addingBreak),
                                           Null, breakSuggestions, now, breakEditor)
                /\ lastEdit' = Null
                /\ saved' = IF saved # Null /\ saved.id = r.id THEN Null ELSE saved
                /\ Render(breakSuggestions, localBreakUpdates)
                /\ UNCHANGED <<scheduleData, loading, issued, sent, okFetches, lastFetch,
                               addingBreak>>

NextEditor ==
    \/ FetchResponds
    \/ RefreshTimerFires
    \/ SlotClick
    \/ AddBreak
    \/ TimeChange
    \/ SaveClick
    \/ DeleteClick
    \/ ResetClick
    \/ Cancel
    \/ SaveResponds
    \/ DeleteResponds
    \/ ResetResponds

SpecEditor == InitEditor /\ [][NextEditor]_vars

----------------------------------------------------------------------------
(* The Dashboard alone: the timeline reports updates, however they came about *)

\* A handler of the timeline has had its request answered and calls
\* onBreaksUpdate; the backend holds the break at the time that was sent.
\* The timeline takes requests once the first load has been answered.
BreaksUpdated ==
    \E t \in EditTimes :
        /\ lastFetch # Null
        /\ sent < MaxUpdates
        /\ sent' = sent + 1
        /\ server' = Customize(server, "b1", t)
        /\ refreshTimers' = OnBreaksUpdate(refreshTimers)
        /\ Render(breakSuggestions, localBreakUpdates)
        /\ UNCHANGED <<scheduleData, loading, requests, issued, okFetches, lastFetch,
                       editor>>

NextDashboard ==
    \/ BreaksUpdated
    \/ RefreshTimerFires
    \/ FetchResponds

SpecDashboard == InitEditor /\ [][NextDashboard]_vars

----------------------------------------------------------------------------
(* The upcoming-break alert of a Dashboard render *)

\* Times of the suggestions of a schedule: past, now, and around the two ends
\* of the hour ahead
AlertTimes ==
    {EarlyNow - 10 * MsPerMinute, EarlyNow, EarlyNow + 20000, EarlyNow + 30000,
     EarlyNow + 30 * MsPerMinute, EarlyNow + 59 * MsPerMinute + 20000,
     EarlyNow + 59 * MsPerMinute + 40000, EarlyNow + 60 * MsPerMinute,
     EarlyNow + 120 * MsPerMinute, NaN}

AlertSchedules ==
    UNION {[1..n -> [id : {"b1"}, time : AlertTimes]] : n \in 0..MaxSuggestions}

\* A schedule has been fetched, or none, and the Dashboard is about to render
InitAlert ==
    /\ WatcherIdle
    /\ FormatIdle
    /\ EditorIdle
    /\ now = EarlyNow
    /\ events = <<>>
    /\ localBreakUpdates = <<>>
    /\ timezone = "UTC"
    /\ machineZone = "UTC"
    /\ NotBuilt
    /\ scheduleData \in {Null} \cup {Schedule(1, suggs) : suggs \in AlertSchedules}
    /\ breakSuggestions = BreakSuggestionsProp(scheduleData)
    /\ loading = FALSE
    /\ requests = {}
    /\ refreshTimers = 0
    /\ server = <<>>
    /\ issued = 1
    /\ sent = 0
    /\ okFetches = {}
    /\ lastFetch = Null
    /\ breakAlert = NotRendered
    /\ PipelineIdle

RenderAlert ==
    /\ breakAlert = NotRendered
    /\ breakAlert' = IF scheduleData = Null THEN "hidden"
                     ELSE UpcomingBreakAlert(scheduleData.break_suggestions, now)
    /\ UNCHANGED <<now, events, watcher, timeline, format, dashboard, editor, pipeline>>

NextAlert == RenderAlert

SpecAlert == InitAlert /\ [][NextAlert]_vars

----------------------------------------------------------------------------
(***************************************************************************)
(* The manual "Meeting Ended" trigger of the Dashboard: handleMeetingEnded *)
(* starts an interval that steps the stage text, posts the trigger and     *)
(* awaits the answer.                                                      *)
(***************************************************************************)

MaxTriggers == 2

\* stages.length
NumStages == 6

\* stages[i], the text of stage number i
Stage(i) == "stage " \o ToString(i)

\* The handlers of the pipeline leave the break editor and the timeline alone
PipelineOnly ==
    UNCHANGED <<now, events, watcher, timeline, format, editor, breakAlert, scheduleData,
                loading, requests, server, issued, sent, okFetches, lastFetch>>

\* handleMeetingEnded up to its await; the button is disabled while the
\* processing flag is set
MeetingEndedClick ==
    /\ ~meetingEndedProcessing
    /\ triggerCount < MaxTriggers
    /\ triggerCount' = triggerCount + 1
    /\ meetingEndedProcessing' = TRUE
    /\ processingStage' = "Starting automation pipeline..."
    /\ stageIntervals' = [n \in DOMAIN stageIntervals \cup {triggerCount'} |->
                             IF n = triggerCount' THEN 0 ELSE stageIntervals[n]]
    /\ triggerRequests' = triggerRequests \cup {triggerCount'}
    /\ UNCHANGED <<resultTimers, refreshTimers>>
    /\ PipelineOnly

\* The callback of stageInterval, every 15 seconds
StageTick ==
    \E n \in DOMAIN stageIntervals :
        /\ stageIntervals[n] < NumStages - 1
        /\ stageIntervals' = [stageIntervals EXCEPT ![n] = @ + 1]
        /\ processingStage' = Stage(stageIntervals'[n])
        /\ UNCHANGED <<meetingEndedProcessing, triggerRequests, resultTimers, triggerCount,
                       refreshTimers>>
        /\ PipelineOnly

\* clearInterval(stageInterval)
ClearStageInterval(ivs, n) ==
    IF DOMAIN ivs \ {n} = {} THEN <<>> ELSE [m \in DOMAIN ivs \ {n} |-> ivs[m]]

\* handleMeetingEnded after the await, the request answered
TriggerSucceeds ==
    \E n \in triggerRequests :
        /\ triggerRequests' = triggerRequests \ {n}
        /\ stageIntervals' = ClearStageInterval(stageIntervals, n)
        /\ processingStage' = "Complete!"
        /\ resultTimers' = resultTimers \cup {n}
        /\ UNCHANGED <<meetingEndedProcessing, triggerCount, refreshTimers>>
        /\ PipelineOnly

\* The catch of handleMeetingEnded: stageInterval, a const of the try block,
\* is out of reach here
TriggerFails ==
    \E n \in triggerRequests :
        /\ triggerRequests' = triggerRequests \ {n}
        /\ meetingEndedProcessing' = FALSE
        /\ processingStage' = ""
        /\ UNCHANGED <<stageIntervals, resultTimers, triggerCount, refreshTimers>>
        /\ PipelineOnly

\* The setTimeout(..., 500) of the success path: the results are shown, the
\* flag is cleared and the reload of the schedule is scheduled
ResultTimerFires ==
    \E n \in resultTimers :
        /\ resultTimers' = resultTimers \ {n}
        /\ meetingEndedProcessing' = FALSE
        /\ processingStage' = ""
        /\ refreshTimers' = refreshTimers + 1
        /\ UNCHANGED <<stageIntervals, triggerRequests, triggerCount>>
        /\ PipelineOnly

NextPipeline ==
    \/ MeetingEndedClick
    \/ StageTick
    \/ TriggerSucceeds
    \/ TriggerFails
    \/ ResultTimerFires
    \/ RefreshTimerFires
    \/ FetchResponds

SpecPipeline == InitEditor /\ [][NextPipeline]_vars

----------------------------------------------------------------------------
(* Vocabulary of the properties *)

Ended(e, t) == e.end # NaN /\ e.end <= t

InvokedKeys == {EventKey(invoked[i].event) : i \in DOMAIN invoked}

CallsFor(calls, k) == Cardinality({i \in DOMAIN calls : EventKey(calls[i].event) = k})

CalledWith(calls, e) == \E i \in DOMAIN calls : calls[i].event = e

TitleOrEvt(e) == IF e.summary # NoSummary THEN e.summary ELSE "evt"

----------------------------------------------------------------------------
\* C1: while an id stays in the watched list of a component instance, the
\* callback is invoked for it at most once: no handler calls it twice, and once
\* the id is in the triggerCount set no later handler calls it again or drops it.
C1_AtMostOncePerId ==
    [][/\ \A k \in InvokedKeys' : CallsFor(invoked', k) = 1
       /\ \A k \in triggeredMeetingIds :
             (mounted' /\ k \in CurrentIds(events'))
                 => (k \notin InvokedKeys' /\ k \in triggeredMeetingIds')]_vars

\* A poll tick that finds an ended, already-called event and leaves it alone
C1_Witness ==
    /\ lastHandler = "tick"
    /\ \E i \in DOMAIN events :
          /\ Ended(events[i], now)
          /\ EventKey(events[i]) \in triggeredMeetingIds \cap delivered
          /\ EventKey(events[i]) \notin InvokedKeys

\* C2: the callback is invoked for an event only by a check at which the
\* event's end is parseable and end <= now.
C2_FiresOnlyAtOrAfterEnd ==
    \A i \in DOMAIN invoked : Ended(invoked[i].event, now)

\* C3: while the timer is armed, time passes only by a poll tick one interval
\* later, and after every handler each listed event whose end has passed is in
\* the triggerCount set, the callback having been invoked for it by this handler
\* unless the id had been triggerCount before.
C3_FiredByFirstTickAfterEnd ==
    [][/\ (interval /\ now' # now)
             => (lastHandler' = "tick" /\ now' = now + PollIntervalMs)
       /\ interval' =>
             \A i \in DOMAIN events' :
                Ended(events'[i], now') =>
                   /\ EventKey(events'[i]) \in triggeredMeetingIds'
                   /\ IsFunction(onMeetingEnd') =>
                         \/ EventKey(events'[i]) \in triggeredMeetingIds
                         \/ EventKey(events'[i]) \in InvokedKeys']_vars

\* The first tick at or after an event's end, the callback delivered
C3_Witness ==
    /\ lastHandler = "tick"
    /\ interval
    /\ \E i \in DOMAIN events :
          /\ Ended(events[i], now)
          /\ ~Ended(events[i], now - PollIntervalMs)
          /\ EventKey(events[i]) \in triggeredMeetingIds \cap delivered

\* C4: mounting a fresh instance checks at once, with no time passing: every
\* listed event whose end is already past is triggerCount by that first check and
\* the callback is invoked for its id exactly once.
C4_FreshWatcherChecksAtOnce ==
    [][(~mounted /\ mounted') =>
          /\ now' = now
          /\ \A i \in DOMAIN events' :
                Ended(events'[i], now') =>
                   /\ EventKey(events'[i]) \in triggeredMeetingIds'
                   /\ IsFunction(onMeetingEnd') => CallsFor(invoked', EventKey(events'[i])) = 1]_vars

C4_Witness ==
    /\ lastHandler = "mount"
    /\ \E i \in DOMAIN invoked : Ended(invoked[i].event, now)

\* C5: a re-render with a new non-empty event list or a new callback does not
\* invoke the callback for an id of the triggerCount set that the new list holds.
C5_ResubscribeDoesNotRefire ==
    [][(mounted /\ lastHandler' = "rerender" /\ events' # <<>>) =>
          \A k \in triggeredMeetingIds \cap CurrentIds(events') :
             k \notin InvokedKeys']_vars

\* A re-render to another list that still holds an ended, delivered id
C5_Witness ==
    /\ lastHandler = "rerender"
    /\ IsFunction(onMeetingEnd)
    /\ \E i \in DOMAIN events :
          /\ Ended(events[i], now)
          /\ EventKey(events[i]) \in triggeredMeetingIds \cap delivered
          /\ EventKey(events[i]) \notin InvokedKeys

\* C6: when a callback call threw, the handler still completed: every id it
\* called is in the triggerCount set, every listed ended event is triggerCount, the
\* timer stays armed, and the next handler does not call those ids again while
\* they stay listed.
C6_ThrowingCallbackIsSwallowed ==
    [][(\E i \in DOMAIN invoked : invoked[i].outcome = "threw") =>
          /\ InvokedKeys \subseteq triggeredMeetingIds
          /\ \A j \in DOMAIN events :
                Ended(events[j], now) => EventKey(events[j]) \in triggeredMeetingIds
          /\ interval
          /\ \A k \in InvokedKeys :
                (mounted' /\ k \in CurrentIds(events')) => k \notin InvokedKeys']_vars

\* Two events of one check, the callback throwing for both
C6_Witness ==
    /\ Len(invoked) = 2
    /\ invoked[1].outcome = "threw"
    /\ invoked[2].outcome = "threw"
    /\ interval

\* C7: within a poll tick, once a callback call has called the disposer, the
\* callback is not invoked again.
C7_NoCallbackAfterStop ==
    lastHandler = "tick" =>
        \A i, j \in DOMAIN invoked : i < j => invoked[i].outcome # "stopped"

\* C8: when an id the callback was invoked for is absent from the watched list
\* and a later list holds an event with that id whose end has passed, the check
\* of that re-render invokes the callback for it again.
C8_ReaddedEventFiresAgain ==
    [][(mounted /\ mounted' /\ IsFunction(onMeetingEnd')) =>
          \A i \in DOMAIN events' :
             (/\ EventKey(events'[i]) \in delivered
              /\ EventKey(events'[i]) \notin CurrentIds(events)
              /\ Ended(events'[i], now'))
                 => EventKey(events'[i]) \in InvokedKeys']_vars

\* A re-render that calls the callback for an id it had been called for before
C8_Witness ==
    /\ lastHandler = "rerender"
    /\ \E i \in DOMAIN invoked : invoked[i].again

\* C9: no handler invokes the callback with an event whose end is unparseable,
\* an id enters the triggerCount set only through a listed event with a parseable
\* end, and a list that holds an unparseable end still has every ended event
\* triggerCount.
C9_UnparseableEndNeverFires ==
    [][/\ \A i \in DOMAIN invoked' : invoked'[i].event.end # NaN
       /\ \A k \in triggeredMeetingIds' \ triggeredMeetingIds :
             \E i \in DOMAIN events' :
                EventKey(events'[i]) = k /\ events'[i].end # NaN
       /\ (interval' /\ \E j \in DOMAIN events' : events'[j].end = NaN) =>
             \A i \in DOMAIN events' :
                Ended(events'[i], now') =>
                   EventKey(events'[i]) \in triggeredMeetingIds']_vars

\* An unparseable event first in the list, untriggered, and the ended event
\* after it called
C9_Witness ==
    /\ Len(events) = 2
    /\ events[1].end = NaN
    /\ EventKey(events[1]) \notin triggeredMeetingIds
    /\ Ended(events[2], now)
    /\ CalledWith(invoked, events[2])

\* C10, as claimed: two listed id-less events that differ in title or in start
\* and have both ended are both called by the first check of a fresh instance.
C10_DifferentTitleOrStartIndependent ==
    (lastHandler = "mount" /\ IsFunction(onMeetingEnd)) =>
        \A i, j \in DOMAIN events :
           (/\ events[i].id = NoId /\ events[j].id = NoId
            /\ events[i].summary # events[j].summary \/ events[i].start # events[j].start
            /\ Ended(events[i], now) /\ Ended(events[j], now))
               => CalledWith(invoked, events[i]) /\ CalledWith(invoked, events[j])

\* C10, amended: an id-less event that has been triggerCount is not called again
\* when a new list holds an id-less event of the same title and start, and the
\* first check of a fresh instance calls every ended id-less event that differs
\* from each event listed before it in start or in title, an absent title
\* counting as "evt".
C10_KeyFromTitleAndStart ==
    [][/\ (mounted /\ mounted') =>
             \A i \in DOMAIN events, j \in DOMAIN events' :
                (/\ events[i].id = NoId /\ events'[j].id = NoId
                 /\ events[i].summary = events'[j].summary
                 /\ events[i].start = events'[j].start
                 /\ EventKey(events[i]) \in triggeredMeetingIds)
                    => ~CalledWith(invoked', events'[j])
       /\ (~mounted /\ mounted' /\ IsFunction(onMeetingEnd')) =>
             \A j \in DOMAIN events' :
                (/\ events'[j].id = NoId
                 /\ Ended(events'[j], now')
                 /\ \A i \in 1..(j - 1) :
                       /\ events'[i].id = NoId
                       /\ \/ TitleOrEvt(events'[i]) # TitleOrEvt(events'[j])
                          \/ events'[i].start # events'[j].start)
                    => CalledWith(invoked', events'[j])]_vars

\* A fresh instance calling two id-less events of one title and two starts
C10_Witness ==
    /\ lastHandler = "mount"
    /\ Len(invoked) = 2
    /\ invoked[1].event.id = NoId /\ invoked[2].event.id = NoId
    /\ invoked[1].event.summary = invoked[2].event.summary
    /\ invoked[1].event.start # invoked[2].event.start

----------------------------------------------------------------------------
(* Vocabulary of the timeline properties *)

MeetingSlots(sl) == {i \in DOMAIN sl : sl[i].type = "meeting"}

BreakSlots(sl) == {i \in DOMAIN sl : sl[i].type = "break"}

\* The meeting slot of event e is in the list sl
HasMeetingOf(sl, e) == \E i \in MeetingSlots(sl) : sl[i].title = MeetingTitle(e)

\* The id suggestion number k resolves to, and whether an earlier one has it
IdOf(k) == BreakId(breakSuggestions[k], machineZone)

FirstOfItsId(k) == \A h \in 1..(k - 1) : IdOf(h) # IdOf(k)

\* The effective time of suggestion number k: the edited time pending for its
\* id if there is one, else its own time
EffectiveTime(k) ==
    IF IdOf(k) \in DOMAIN localBreakUpdates
    THEN localBreakUpdates[IdOf(k)]
    ELSE breakSuggestions[k].time

HasBreakOf(sl, id) == \E j \in BreakSlots(sl) : sl[j].id = id

\* The input with the malformed items taken out
WellFormedEvent(e) == e.start # NaN /\ e.end # NaN

WellFormedSuggestion(s) == s.time # NaN

\* The whole minute an instant lies in
MinuteOf(t) == t \div MsPerMinute

----------------------------------------------------------------------------
\* C11: whatever the order of the events and suggestions, the list the memo
\* returns is non-decreasing in the slots' sort instant (sortTime).
C11_NonDecreasingSortInstant ==
    built => \A i, j \in DOMAIN timeSlots :
                 i < j => timeSlots[i].sortTime <= timeSlots[j].sortTime

----------------------------------------------------------------------------
\* C12: for fixed events, suggestions, now and local overrides the memo returns
\* the same slots in the same order under every viewer timezone: a list built
\* under one zone is a list the memo returns under every other zone.
C12_TimezoneIndependent ==
    built => \A tz \in ViewerZones \ {timezone} :
                 timeSlots \in BuildTimeline(events, breakSuggestions, now,
                                             localBreakUpdates, tz, machineZone)

\* A list built for a viewer outside UTC, with a meeting and a break in it and
\* an input item left out
C12_Witness ==
    /\ built
    /\ timezone = "America/New_York"
    /\ MeetingSlots(timeSlots) # {}
    /\ BreakSlots(timeSlots) # {}
    /\ Len(timeSlots) < Len(events) + Len(breakSuggestions)

----------------------------------------------------------------------------
\* C13: the list holds no meeting slot of an event with end <= now and no
\* break slot whose effective time is <= now; every event with end > now and
\* every first suggestion of an id with effective time > now is in the slots
\* array, all of which is returned when it is not longer than MaxSlots.
C13_OnlyFutureItems ==
    built =>
        /\ \A i \in DOMAIN events :
               (events[i].end # NaN /\ events[i].end <= now)
                   => ~HasMeetingOf(timeSlots, events[i])
        /\ \A j \in BreakSlots(timeSlots) :
               /\ timeSlots[j].time # NaN /\ timeSlots[j].time > now
               /\ \E k \in DOMAIN breakSuggestions :
                      /\ FirstOfItsId(k) /\ IdOf(k) = timeSlots[j].id
                      /\ EffectiveTime(k) = timeSlots[j].time
        /\ \A k \in DOMAIN breakSuggestions :
               (EffectiveTime(k) # NaN /\ EffectiveTime(k) <= now)
                   => ~(FirstOfItsId(k) /\ HasBreakOf(timeSlots, IdOf(k)))
        /\ \A i \in DOMAIN events :
               (events[i].end # NaN /\ events[i].end > now)
                   => HasMeetingOf(slots, events[i])
        /\ \A k \in DOMAIN breakSuggestions :
               (FirstOfItsId(k) /\ EffectiveTime(k) # NaN /\ EffectiveTime(k) > now)
                   => HasBreakOf(slots, IdOf(k))
        /\ Len(slots) <= MaxSlots => Range(timeSlots) = Range(slots)

\* An event that ended at the instant now and a suggestion whose time has
\* passed are left out, next to a meeting and a break that are shown
C13_Witness ==
    /\ built
    /\ \E i \in DOMAIN events : events[i].end = now
    /\ \E k \in DOMAIN breakSuggestions :
           FirstOfItsId(k) /\ EffectiveTime(k) # NaN /\ EffectiveTime(k) <= now
    /\ MeetingSlots(timeSlots) # {}
    /\ BreakSlots(timeSlots) # {}

----------------------------------------------------------------------------
\* C14: the list never holds two break slots with the same id; a break slot
\* carries the data of the first suggestion in input order that resolves to
\* its id, and a suggestion fed twice, the first of its id and with its time
\* ahead, gives one slot.
C14_OneSlotPerBreakId ==
    built =>
        /\ \A i, j \in BreakSlots(timeSlots) :
               i # j => timeSlots[i].id # timeSlots[j].id
        /\ \A j \in BreakSlots(timeSlots) :
               \E k \in DOMAIN breakSuggestions :
                   /\ FirstOfItsId(k) /\ IdOf(k) = timeSlots[j].id
                   /\ timeSlots[j].breakData
                        = [breakSuggestions[k] EXCEPT !.time = EffectiveTime(k)]
        /\ \A h, k \in DOMAIN breakSuggestions :
               (/\ h < k /\ breakSuggestions[h] = breakSuggestions[k]
                /\ FirstOfItsId(h)
                /\ EffectiveTime(k) # NaN /\ EffectiveTime(k) > now)
                   => Cardinality({j \in BreakSlots(timeSlots) :
                                      timeSlots[j].id = IdOf(k)}) = 1

\* Two suggestions with one id, the same one fed twice or two with different
\* times, and the id shown
C14_Witness ==
    /\ built
    /\ \E h, k \in DOMAIN breakSuggestions :
           /\ h < k /\ IdOf(h) = IdOf(k)
           /\ HasBreakOf(timeSlots, IdOf(k))
           /\ \/ breakSuggestions[h].time # breakSuggestions[k].time
              \/ breakSuggestions[h] = breakSuggestions[k]

----------------------------------------------------------------------------
\* C15: when an edited time is pending for a suggestion's id, the break of
\* that id is shown exactly while now is before the edited time, with the
\* edited time as its time and sort instant, wherever the suggestion's own
\* time lies.
C15_OverrideIsEffectiveTime ==
    built =>
        \A k \in DOMAIN breakSuggestions :
            IdOf(k) \in DOMAIN localBreakUpdates =>
                LET override == localBreakUpdates[IdOf(k)]
                IN  /\ now < override =>
                           \E j \in BreakSlots(timeSlots) :
                               /\ timeSlots[j].id = IdOf(k)
                               /\ timeSlots[j].time = override
                               /\ timeSlots[j].sortTime = override
                    /\ now >= override => ~HasBreakOf(timeSlots, IdOf(k))

\* A break whose own time has passed is shown at its edited time
C15_Witness ==
    /\ built
    /\ \E k \in DOMAIN breakSuggestions :
           /\ IdOf(k) \in DOMAIN localBreakUpdates
           /\ breakSuggestions[k].time # NaN /\ breakSuggestions[k].time <= now
           /\ now < localBreakUpdates[IdOf(k)]
           /\ HasBreakOf(timeSlots, IdOf(k))

----------------------------------------------------------------------------
\* C16: the memo returns at most MaxSlots slots, and when more were pushed it
\* returns MaxSlots of them, none of which has a later sort instant than a
\* slot left out.
C16_TheEarliestTwenty ==
    built =>
        /\ Len(timeSlots) <= MaxSlots
        /\ Len(slots) > MaxSlots =>
               /\ Len(timeSlots) = MaxSlots
               /\ Range(timeSlots) \subseteq Range(slots)
               /\ \A kept \in Range(timeSlots) :
                      \A cut \in Range(slots) \ Range(timeSlots) :
                          kept.sortTime <= cut.sortTime

----------------------------------------------------------------------------
----------------------------------------------------------------------------
\* C18: an event whose start or end does not parse and a suggestion whose
\* time does not parse give no slot, and the list is one the memo returns
\* for the same input without those items.
C18_MalformedItemsIgnored ==
    built =>
        /\ \A i \in DOMAIN events :
               ~WellFormedEvent(events[i]) => ~HasMeetingOf(timeSlots, events[i])
        /\ \A k \in DOMAIN breakSuggestions :
               (FirstOfItsId(k) /\ ~WellFormedSuggestion(breakSuggestions[k]))
                   => ~HasBreakOf(timeSlots, IdOf(k))
        /\ timeSlots \in BuildTimeline(SelectSeq(events, WellFormedEvent),
                                       SelectSeq(breakSuggestions, WellFormedSuggestion),
                                       now, localBreakUpdates, timezone, machineZone)

----------------------------------------------------------------------------
\* C19: no meeting slot comes from an event that ends at or before its start.
C19_NoSlotForInvertedEvent ==
    built =>
        \A i \in DOMAIN events :
            (WellFormedEvent(events[i]) /\ events[i].end <= events[i].start)
                => ~HasMeetingOf(timeSlots, events[i])

----------------------------------------------------------------------------
\* C20: two suggestions without an id resolve to the same id when their times
\* lie in the same minute and to different ids when they lie in different
\* minutes, and in the second case both are shown when both are ahead.
C20_DerivedIdIsTheMinute ==
    built =>
        \A h, k \in DOMAIN breakSuggestions :
            LET a == breakSuggestions[h]
                b == breakSuggestions[k]
            IN  (h < k /\ a.id = NoId /\ b.id = NoId /\ a.time # NaN /\ b.time # NaN) =>
                    /\ MinuteOf(a.time) = MinuteOf(b.time) => IdOf(h) = IdOf(k)
                    /\ MinuteOf(a.time) # MinuteOf(b.time) =>
                           /\ IdOf(h) # IdOf(k)
                           /\ (a.time > now /\ b.time > now) =>
                                  /\ HasBreakOf(timeSlots, IdOf(h))
                                  /\ HasBreakOf(timeSlots, IdOf(k))

----------------------------------------------------------------------------
\* C23: a watcher has at most one poll timer armed, also after the effect has
\* run again, and the timer that is armed runs the scan of the current event
\* list and callback, never that of a superseded render.
C23_OneTimerOfTheCurrentList ==
    /\ Len(timers) <= 1
    /\ \A i \in DOMAIN timers :
           /\ mounted
           /\ timers[i].events = events
           /\ timers[i].onMeetingEnd = onMeetingEnd

\* The effect has run again, after time has passed and a callback was made,
\* and one timer is armed
C23_Witness ==
    /\ lastHandler = "rerender"
    /\ Len(timers) = 1
    /\ now > 0
    /\ delivered # {}

----------------------------------------------------------------------------
\* C25: after a tick every id in the triggerCount set is the id of an event of
\* the list the tick scanned, the set is empty whenever the watched list is
\* empty, and an id the tick called the callback for is in the set when the
\* tick is over.
C25_TriggeredIdsAreCurrent ==
    /\ lastHandler = "tick" => triggeredMeetingIds \subseteq CurrentIds(events)
    /\ events = <<>> => triggeredMeetingIds = {}
    /\ lastHandler = "tick" =>
           \A i \in DOMAIN invoked : EventKey(invoked[i].event) \in triggeredMeetingIds

\* A tick that has called the callback
C25_Witness ==
    /\ lastHandler = "tick"
    /\ invoked # <<>>
    /\ triggeredMeetingIds # {}

----------------------------------------------------------------------------
\* C24: when two suggestions resolve to one id and the first in input order
\* has an effective time at or before now while a later one has its own time
\* after now, the list holds a break slot of that id.
C24_FilterBeforeDedup ==
    built =>
        \A h, k \in DOMAIN breakSuggestions :
            (/\ h < k /\ FirstOfItsId(h) /\ IdOf(h) = IdOf(k)
             /\ EffectiveTime(h) # NaN /\ EffectiveTime(h) <= now
             /\ EffectiveTime(k) # NaN /\ EffectiveTime(k) > now)
                => HasBreakOf(timeSlots, IdOf(k))

----------------------------------------------------------------------------
\* C22: formatDate answers "Today" exactly when the calendar date of the
\* instant in the viewer's timezone is the calendar date of now in that
\* timezone, and "Tomorrow" exactly when it is the calendar date after it.
C22_TodayAndTomorrowPerTimezone ==
    (label # NotFormatted /\ formatInstant # NaN) =>
        /\ label = "Today"
              <=> DateParts(timezone, formatInstant) = DateParts(timezone, now)
        /\ label = "Tomorrow"
              <=> DateParts(timezone, formatInstant) = DateParts(timezone, now) + 1

----------------------------------------------------------------------------
\* C21: once the save of a break's edit has succeeded, or the edit has been
\* cancelled, the override map has no entry for the break's id, and the slot
\* of that id shows the time of the suggestion itself.
C21_OverrideGoneAfterSaveOrCancel ==
    (lastEdit # Null /\ lastEdit.kind \in {"saved", "cancelled"} /\ lastEdit.id # NoId) =>
        /\ lastEdit.id \notin DOMAIN localBreakUpdates
        /\ \A j \in BreakSlots(timeSlots) :
               timeSlots[j].id = lastEdit.id =>
                   \E k \in DOMAIN breakSuggestions :
                       /\ FirstOfItsId(k)
                       /\ IdOf(k) = lastEdit.id
                       /\ timeSlots[j].time = breakSuggestions[k].time

\* An edited time has been saved and the break has its slot
C21_Witness ==
    /\ lastEdit # Null
    /\ lastEdit.kind = "saved"
    /\ saved # Null
    /\ saved.id = lastEdit.id
    /\ HasBreakOf(timeSlots, lastEdit.id)

----------------------------------------------------------------------------
\* C26: whenever the break editor is closed the override map is empty, and
\* every break slot shows the time of its fetched suggestion.
C26_NoOverrideWhileEditorClosed ==
    (editingBreak = Null /\ ~addingBreak) =>
        /\ localBreakUpdates = <<>>
        /\ \A j \in BreakSlots(timeSlots) :
               \E k \in DOMAIN breakSuggestions :
                   /\ IdOf(k) = timeSlots[j].id
                   /\ timeSlots[j].time = breakSuggestions[k].time

----------------------------------------------------------------------------
\* C27: from the successful save of an edited time until a schedule fetched
\* after the save has been applied, the timeline on screen shows the break
\* at the edited time.
C27_EditedTimeShownUntilRefreshed ==
    (saved # Null /\ ~loading) =>
        \A j \in BreakSlots(timeSlots) :
            timeSlots[j].id = saved.id => timeSlots[j].time = saved.time

----------------------------------------------------------------------------
\* C28: when no schedule fetch is in flight, scheduleData is the response of
\* the last fetch issued among those that succeeded, and a fetch that failed
\* has left scheduleData as it was.
C28_LastIssuedFetchWins ==
    (\A r \in requests : r.kind # "fetch") =>
        /\ okFetches # {} =>
               /\ scheduleData # Null
               /\ \A n \in okFetches : n <= scheduleData.fetch
        /\ (lastFetch # Null /\ ~lastFetch.ok) => scheduleData = lastFetch.before

----------------------------------------------------------------------------
\* C29: the Dashboard shows the upcoming-break alert exactly when the fetched
\* schedule has a suggestion whose time is ahead of now by less than 60
\* minutes.
C29_AlertIffBreakWithinTheHour ==
    breakAlert # NotRendered =>
        (breakAlert = "shown"
            <=> \E k \in DOMAIN breakSuggestions :
                    /\ breakSuggestions[k].time # NaN
                    /\ breakSuggestions[k].time > now
                    /\ breakSuggestions[k].time - now < AlertMinutes * MsPerMinute)

----------------------------------------------------------------------------
\* C30: a stage interval lives only while its trigger request is unanswered,
\* and once every trigger has been answered and its results shown the
\* processing flag is clear.
C30_NoStageTimerAfterCompletion ==
    /\ \A n \in DOMAIN stageIntervals : n \in triggerRequests
    /\ (triggerRequests = {} /\ resultTimers = {}) => ~meetingEndedProcessing

====
